---------------------------- MODULE Spec2Model ----------------------------
(***************************************************************************)
(* A model of the IPA signing engine of ios-tool (src/signing):            *)
(*   - SigningCore      (core.py):   sign_ipa / sign_app and their helpers *)
(*   - AnnualSigner     (annual.py): validate / sign_ipa                   *)
(*   - WeeklySigner     (weekly.py): sign_ipa                              *)
(*   - ProvisioningProfile.bundle_id_pattern / matches_bundle_id and       *)
(*     SigningCore.calculate_bundle_id as pure functions over strings.     *)
(*                                                                         *)
(* Python strings are modelled as sequences of one-character strings, so   *)
(* that split / startswith / endswith / slicing are computed, not assumed. *)
(***************************************************************************)
EXTENDS Integers, Sequences, FiniteSets, TLC

\* ------------------------------------------------------------------------
\* Bounds of the model
\* ------------------------------------------------------------------------
\* longest bundle identifier tried on calculate_bundle_id
MaxIdLen == 3
\* longest application identifier (team prefix + "." + pattern) tried
MaxAppIdLen == 4
\* number of top-level calls made on one signer / core object
MaxCalls == 2
\* the clock (datetime.utcnow()) runs over 0..MaxTime
MaxTime == 2
\* number of calls made on one AppleAuthenticator
MaxAuthCalls == 3
\* number of different anisette header sets the servers hand out
MaxAnisette == 2
MaxFileLen == 4
MaxPlistLen == 4

\* ------------------------------------------------------------------------
\* Python string helpers
\* ------------------------------------------------------------------------
\* Python's None where a str is expected (Optional[str])
NoneStr == <<"<None>">>

\* all strings over alphabet A of length at most n
StrsUpTo(A, n) == UNION {[1..k -> A] : k \in 0..n}

\* str.startswith
StartsWith(s, p) ==
    /\ Len(p) <= Len(s)
    /\ \A i \in 1..Len(p) : s[i] = p[i]

\* str.endswith("*")
EndsWithStar(s) == Len(s) > 0 /\ s[Len(s)] = "*"

\* positions of "." in s
DotPositions(s) == {i \in 1..Len(s) : s[i] = "."}

SetMax(S) == CHOOSE x \in S : \A y \in S : y <= x
SetMin(S) == CHOOSE x \in S : \A y \in S : x <= y

\* s.split(".")[-1]
LastDotSegment(s) ==
    IF DotPositions(s) = {} THEN s
    ELSE SubSeq(s, SetMax(DotPositions(s)) + 1, Len(s))

\* ------------------------------------------------------------------------
\* models.py: ProvisioningProfile.bundle_id_pattern, matches_bundle_id
\* ------------------------------------------------------------------------
\* parts = app_id.split(".", 1); parts[1] if len(parts) > 1 else "*"
bundle_id_pattern(app_id) ==
    IF DotPositions(app_id) = {} THEN <<"*">>
    ELSE SubSeq(app_id, SetMin(DotPositions(app_id)) + 1, Len(app_id))

matches_bundle_id(app_id, bundle_id) ==
    LET pattern == bundle_id_pattern(app_id) IN
    IF pattern = <<"*">> THEN TRUE
    ELSE IF EndsWithStar(pattern)
         THEN StartsWith(bundle_id, SubSeq(pattern, 1, Len(pattern) - 1))
         ELSE bundle_id = pattern

\* ------------------------------------------------------------------------
\* core.py: SigningCore.calculate_bundle_id
\* ------------------------------------------------------------------------
\* a plausible slip: the prefix wildcard always rebuilds the id from the prefix
calculate_bundle_id_rebuild(original_bundle_id, app_id) ==
    LET pattern == bundle_id_pattern(app_id) IN
    IF pattern = <<"*">> THEN original_bundle_id
    ELSE IF EndsWithStar(pattern)
         THEN SubSeq(pattern, 1, Len(pattern) - 1) \o LastDotSegment(original_bundle_id)
         ELSE pattern

calculate_bundle_id(original_bundle_id, app_id) ==
    LET pattern == bundle_id_pattern(app_id) IN
    IF pattern = <<"*">> THEN original_bundle_id
    ELSE IF EndsWithStar(pattern)
         THEN LET prefix == SubSeq(pattern, 1, Len(pattern) - 1) IN
              IF StartsWith(original_bundle_id, prefix)
              THEN original_bundle_id
              ELSE prefix \o LastDotSegment(original_bundle_id)
         ELSE pattern

\* ------------------------------------------------------------------------
\* Values handled by the signing core
\* ------------------------------------------------------------------------
\* the preserve_keys list of generate_entitlements
PreserveKeys ==
    { "aps-environment",
      "com.apple.developer.associated-domains",
      "com.apple.developer.icloud-container-identifiers",
      "com.apple.developer.ubiquity-container-identifiers",
      "com.apple.developer.default-data-protection",
      "com.apple.developer.networking.wifi-info",
      "com.apple.developer.healthkit",
      "com.apple.developer.homekit",
      "com.apple.developer.siri" }

\* an empty dict
EmptyEnts == [k \in {} |-> TRUE]

\* d[k] = v on a dict
Put(d, k, v) == [x \in (DOMAIN d) \cup {k} |-> IF x = k THEN v ELSE d[x]]

\* entitlement dicts a provisioning profile may declare
EntsDev  == [k \in {"aps-environment", "get-task-allow"} |->
                IF k = "aps-environment" THEN "development" ELSE "true"]
EntsProd == [k \in {"aps-environment", "com.apple.developer.siri"} |->
                IF k = "aps-environment" THEN "production" ELSE "true"]
EntsPlain == [k \in {"get-task-allow"} |-> "true"]
ProfileEnts == {EntsDev, EntsProd, EntsPlain}

\* The content of a file holding a mobileprovision, seen through
\* ProvisioningProfileParser: parse = "ok" yields the Entitlements dict,
\* parse = "bad" makes the parser raise, parse = "none" is no file at all.
NoFile == [parse |-> "none", ents |-> EmptyEnts]
BadFile == [parse |-> "bad", ents |-> EmptyEnts]
ProvFile(e) == [parse |-> "ok", ents |-> e]

\* ProvisioningProfile.raw_data.  models.py declares bytes (t = "bytes", the
\* CMS bytes themselves, whose parse gives `ents`); sign_app hands the value
\* to Path(), which only a str accepts (t = "str": a file name, `onDisk`
\* telling whether that file exists, `ents` what it holds).
RawBytes(e) == [t |-> "bytes", onDisk |-> FALSE, ents |-> e]
RawPath(e, x) == [t |-> "str", onDisk |-> x, ents |-> e]

\* hashlib.sha1(der).hexdigest().upper()
Sha1Upper(der) == <<"SHA1", der>>

TeamT == <<"T">>
TeamU == <<"U">>

\* application identifiers "T.*", "T.a.*", "T.a.b"
AppIdAny == <<"T", ".", "*">>
AppIdPrefix == <<"T", ".", "a", ".", "*">>
AppIdExact == <<"T", ".", "a", ".", "b">>
AppIds == {AppIdAny, AppIdPrefix, AppIdExact}

\* bundle identifiers "a.b", "b.b", "b.a"
IdAB == <<"a", ".", "b">>
IdBB == <<"b", ".", "b">>
IdBA == <<"b", ".", "a">>

\* profiles as the parsers build them: entitlements are those of raw_data
BytesProfiles ==
    { [app_id |-> a, team_id |-> TeamT, entitlements |-> e,
       raw_data |-> RawBytes(e), certificates |-> {"derT"},
       creation_date |-> 0, expiration_date |-> MaxTime] :
        a \in AppIds, e \in ProfileEnts }

\* profiles whose raw_data is a file name, as sign_app reads it
PathProfiles ==
    { [app_id |-> a, team_id |-> TeamT, entitlements |-> e,
       raw_data |-> RawPath(e, x), certificates |-> {"derT"},
       creation_date |-> 0, expiration_date |-> MaxTime] :
        a \in AppIds, e \in {EntsDev}, x \in BOOLEAN }

\* Certificates.  `aware`: not_before / not_after are timezone-aware
\* datetimes (cert.not_valid_before_utc, cryptography >= 42) and not naive
\* ones; comparing or subtracting them with datetime.utcnow() raises.
Cert(team, der, nb, na, w) ==
    [team_id |-> team, raw_data |-> der, fingerprint_sha1 |-> Sha1Upper(der),
     not_before |-> nb, not_after |-> na, aware |-> w]
CoreCerts == { Cert(TeamT, "derT", 0, MaxTime, w) : w \in BOOLEAN }

\* the pair of scenario E1
PlainProfile ==
    CHOOSE p \in BytesProfiles : p.app_id = AppIdAny /\ p.entitlements = EntsDev
NaiveCert == CHOOSE c \in CoreCerts : ~c.aware

\* entries of Frameworks/ and PlugIns/: suffix, and whether the inner binary
\* <entry>/<stem> exists
FwA == [name |-> "A.framework", suffix |-> ".framework", bin |-> TRUE]
FwB == [name |-> "B.framework", suffix |-> ".framework", bin |-> FALSE]
FwD == [name |-> "d.dylib", suffix |-> ".dylib", bin |-> TRUE]
FwX == [name |-> "x.txt", suffix |-> ".txt", bin |-> FALSE]
PlP == [name |-> "P.appex", suffix |-> ".appex", bin |-> TRUE]
PlQ == [name |-> "Q.appex", suffix |-> ".appex", bin |-> FALSE]
PlY == [name |-> "y.bundle", suffix |-> ".bundle", bin |-> TRUE]
FwChoices == { {}, {FwA}, {FwA, FwB, FwD, FwX} }
PlChoices == { {}, {PlP}, {PlP, PlQ, PlY} }

\* An archive / an extracted tree: Payload/<X>.app and what it holds.
\* plist: "ok", "bad" (unparsable) or "missing"; exe: the file named by
\* CFBundleExecutable exists; embedded: embedded.mobileprovision; xcent:
\* archived-expanded-entitlements.xcent (hasXcent tells whether it exists).
Tree(pay, app, pl, bid, exe, fw, plg, emb) ==
    [payload |-> pay, app |-> app, plist |-> pl, bundle_id |-> bid,
     exe |-> exe, fw |-> fw, plugins |-> plg, embedded |-> emb,
     hasXcent |-> FALSE, xcent |-> EmptyEnts, tempProv |-> NoFile]

EmptyTree == Tree(FALSE, FALSE, "missing", <<>>, FALSE, {}, {}, NoFile)

\* bundles that differ in identifier and in the profile they already embed
IdTrees ==
    { Tree(TRUE, TRUE, "ok", b, TRUE, {}, {}, e) :
        b \in {IdAB, IdBB}, e \in {NoFile, BadFile, ProvFile(EntsProd)} }

\* bundles that differ in the binaries they hold
BinaryTrees ==
    { Tree(TRUE, TRUE, "ok", IdAB, x, f, p, NoFile) :
        x \in BOOLEAN, f \in FwChoices, p \in PlChoices }

\* archives with a signable bundle
GoodTrees == IdTrees \cup BinaryTrees

\* archives that make a step of sign_ipa fail
BadTrees ==
    { Tree(FALSE, FALSE, "missing", <<>>, FALSE, {}, {}, NoFile),
      Tree(TRUE, FALSE, "missing", <<>>, FALSE, {}, {}, NoFile),
      Tree(TRUE, TRUE, "missing", <<>>, TRUE, {}, {}, NoFile),
      Tree(TRUE, TRUE, "bad", <<>>, TRUE, {}, {}, NoFile) }

\* an input file: exists / is a readable zip / what it unpacks to
Zip(t) == [exists |-> TRUE, zip |-> TRUE, tree |-> t]
BadArchives ==
    { Zip(t) : t \in BadTrees }
    \cup { [exists |-> e, zip |-> FALSE, tree |-> EmptyTree] : e \in BOOLEAN }
Archives == { Zip(t) : t \in GoodTrees } \cup BadArchives

\* new_bundle_id: None, "" or "b.a"
Overrides == {NoneStr, <<>>, IdBA}

\* SigningResult (message: the text's leading words; errors: non-empty?)
\* raised: no result at all, the call ended with this exception propagating;
\* checks: the messages validate() collected
NoResult ==
    [success |-> FALSE, message |-> "", bundle_id |-> NoneStr,
     has_output |-> FALSE, errors |-> FALSE, warnings |-> 0,
     raised |-> FALSE, checks |-> {}]
Failure(msg) == [NoResult EXCEPT !.message = msg, !.errors = TRUE]
Raised(exc) == [NoResult EXCEPT !.message = exc, !.raised = TRUE]

\* what validate() finds at p12_path and provision_path
P12Missing == [exists |-> FALSE, parses |-> FALSE, cert |-> NaiveCert]
ProvMissing == [exists |-> FALSE, parses |-> FALSE, profile |-> PlainProfile]
NoFiles == [p12 |-> P12Missing, prov |-> ProvMissing]

NoCall ==
    [op |-> "none", via |-> "direct", archive |-> [exists |-> FALSE, zip |-> FALSE, tree |-> EmptyTree],
     profile |-> CHOOSE p \in BytesProfiles : TRUE,
     certificate |-> CHOOSE c \in CoreCerts : TRUE,
     new_bundle_id |-> NoneStr, entitlements |-> EmptyEnts, given |-> FALSE,
     dir |-> 0, bundle_id |-> NoneStr, todo |-> {},
     fresh |-> FALSE, files |-> NoFiles, udid |-> FALSE, at |-> 0]

\* the directory a direct sign_app call works in (not a temporary one)
UserDir == 0
\* names tempfile.mkdtemp can hand out
TempDirIds == 1..(MaxCalls + 1)

VARIABLES
    bidIn,      \* calculate_bundle_id: the arguments under test
    bidOut,     \* calculate_bundle_id: the value returned, NoneStr before
    pc,         \* position inside the running SigningCore call
    call,       \* arguments and locals of the running call
    disk,       \* directory id -> extracted tree, for the directories on disk
    tempList,   \* SigningCore._temp_dirs
    signLog,    \* the sign_binary invocations of the running call, in order
    result,     \* the SigningResult of the running / last call
    outFile,    \* the file at output_ipa
    ncalls,     \* top-level calls made so far
    darwin,     \* platform.system() == "Darwin"
    now,        \* datetime.utcnow()
    an,         \* the AnnualSigner: _validated, _certificate, _profile
    wk,         \* the WeeklySigner: session, _team_id, _certificates, _app_ids
    auth,       \* the AppleAuthenticator: _session, _anisette_data, _pending_session
    net,        \* the HTTP requests that reached the network, in order
    dev,        \* the _dev_request invocations of the WeeklySigner, in order
    ret,        \* what the last authenticator / provisioning call answered
    fnIn,       \* register_device / _sign_adhoc: the argument under test
    fnOut       \* register_device / _sign_adhoc: what the function did with it

vars == <<bidIn, bidOut, pc, call, disk, tempList, signLog, result, outFile,
          ncalls, darwin, now, an, wk, auth, net, dev, ret, fnIn, fnOut>>
bidVars == <<bidIn, bidOut>>
signerVars == <<now, an, wk>>
svcVars == <<auth, net, dev, ret>>
fnVars == <<fnIn, fnOut>>
coreVars == <<pc, call, disk, tempList, signLog, result, outFile, ncalls, darwin>>


\* ------------------------------------------------------------------------
\* core.py: helpers of SigningCore
\* ------------------------------------------------------------------------
\* tempfile.mkdtemp: a name no existing directory has
FreshDir == SetMin(TempDirIds \ DOMAIN disk)

\* the file system with directory d holding tree t
WithDir(d, t) == [x \in (DOMAIN disk) \cup {d} |-> IF x = d THEN t ELSE disk[x]]

\* cleanup(): shutil.rmtree on every listed directory that exists;
\* the result is the file system afterwards (the list is cleared by the caller)
\* a plausible slip: the list is cleared but nothing is removed
cleanup_list_only(ds) == disk
cleanup(ds) ==
    [x \in (DOMAIN disk) \ {ds[i] : i \in 1..Len(ds)} |-> disk[x]]

\* get_embedded_entitlements: {} when the file is absent or the parser raises
get_embedded_entitlements(tree) ==
    IF tree.embedded.parse = "ok" THEN tree.embedded.ents ELSE EmptyEnts

\* a plausible slip: every preserved key the app had is copied
generate_entitlements_copy_all(profile, bundle_id, app_entitlements) ==
    LET base == Put(Put(profile.entitlements, "application-identifier",
                        profile.team_id \o <<".">> \o bundle_id),
                    "com.apple.developer.team-identifier", profile.team_id)
        copied == (DOMAIN app_entitlements) \cap PreserveKeys
    IN [k \in (DOMAIN base) \cup copied |->
            IF k \in copied THEN app_entitlements[k] ELSE base[k]]

\* generate_entitlements
generate_entitlements(profile, bundle_id, app_entitlements) ==
    LET base == Put(Put(profile.entitlements, "application-identifier",
                        profile.team_id \o <<".">> \o bundle_id),
                    "com.apple.developer.team-identifier", profile.team_id)
        copied == { k \in PreserveKeys :
                      /\ k \in DOMAIN app_entitlements
                      /\ k \in DOMAIN profile.entitlements }
    IN [k \in DOMAIN base |-> IF k \in copied THEN app_entitlements[k] ELSE base[k]]

\* install_provisioning_profile: dest is unlinked and the file copied over it
install_provisioning_profile(tree, content) == [tree EXCEPT !.embedded = content]

\* update_bundle_id: CFBundleIdentifier rewritten when it differs
update_bundle_id(tree, new_bundle_id) == [tree EXCEPT !.bundle_id = new_bundle_id]

\* `if new_bundle_id:` - None and "" are both false
Truthy(s) == s # NoneStr /\ s # <<>>

\* sign_binary: what the back-end can answer.  Native codesign (Darwin) may
\* exit non-zero or be missing; _sign_adhoc always returns True.
SignOutcomes == IF darwin THEN {"ok", "nonzero", "notfound"} ELSE {"ok"}
SignMessage(o) == IF o = "nonzero" THEN "codesign failed" ELSE "codesign not found"

\* one sign_binary invocation, as recorded in signLog
Invocation(entry, group, ent, o) ==
    [binary |-> entry, group |-> group, entitlements |-> ent,
     backend |-> IF darwin THEN "codesign" ELSE "adhoc", outcome |-> o]

\* where control goes when sign_app returns
AfterSignApp == IF call.op = "sign_app" THEN "done" ELSE "post_sign"

\* the entries of Frameworks/ the first loop of sign_app signs
SignableFramework(e) ==
    \/ e.suffix = ".framework" /\ e.bin
    \/ e.suffix = ".dylib"
\* the entries of PlugIns/ the second loop signs
SignablePlugin(e) == e.suffix = ".appex" /\ e.bin

\* ------------------------------------------------------------------------
\* core.py: SigningCore.sign_ipa, step by step
\* ------------------------------------------------------------------------
CanCall == pc \in {"idle", "done"} /\ ncalls < MaxCalls

\* The argument tuples tried on sign_ipa: every failing archive once, every
\* identifier / embedded profile / pattern / override combination, and every
\* set of binaries with each kind of raw_data and of certificate.
SigningProfiles == {PlainProfile} \cup {p \in PathProfiles : p.app_id = AppIdAny}
SignIpaInputs ==
    { [archive |-> a, profile |-> PlainProfile, certificate |-> NaiveCert,
       new_bundle_id |-> NoneStr] : a \in BadArchives }
    \cup
    { [archive |-> Zip(t), profile |-> p, certificate |-> NaiveCert,
       new_bundle_id |-> n] : t \in IdTrees, p \in BytesProfiles, n \in Overrides }
    \cup
    { [archive |-> Zip(t), profile |-> p, certificate |-> c,
       new_bundle_id |-> NoneStr] :
        t \in BinaryTrees, p \in SigningProfiles, c \in CoreCerts }

\* sign_ipa(input_ipa, output_ipa, certificate, profile, new_bundle_id)
SignIpaCall ==
    /\ CanCall
    /\ \E i \in SignIpaInputs :
        call' = [NoCall EXCEPT !.op = "sign_ipa", !.archive = i.archive,
                               !.profile = i.profile,
                               !.certificate = i.certificate,
                               !.new_bundle_id = i.new_bundle_id]
    /\ pc' = "extract"
    /\ result' = NoResult
    /\ signLog' = <<>>
    /\ ncalls' = ncalls + 1
    /\ disk' = [d \in (DOMAIN disk) \ {UserDir} |-> disk[d]]
    /\ UNCHANGED <<tempList, outFile, darwin, bidVars, signerVars, svcVars, fnVars>>

\* extract_ipa (called with dest_dir = None)
ExtractIpa ==
    /\ pc = "extract"
    /\ IF ~call.archive.exists
       THEN /\ result' = Failure("IPA not found")
            /\ pc' = "finally"
            /\ UNCHANGED <<disk, tempList, call>>
       ELSE LET d == FreshDir IN
            /\ tempList' = Append(tempList, d)
            /\ call' = [call EXCEPT !.dir = d]
            /\ IF call.archive.zip
               THEN /\ disk' = WithDir(d, call.archive.tree)
                    /\ pc' = "find_app"
                    /\ UNCHANGED result
               ELSE /\ disk' = WithDir(d, EmptyTree)
                    /\ result' = Failure("Failed to extract IPA")
                    /\ pc' = "finally"
    /\ UNCHANGED <<signLog, outFile, ncalls, darwin, bidVars, signerVars, svcVars, fnVars>>

\* find_app_in_payload
FindApp ==
    /\ pc = "find_app"
    /\ LET t == disk[call.dir] IN
       IF ~t.payload
       THEN result' = Failure("Payload folder not found") /\ pc' = "finally"
       ELSE IF ~t.app
       THEN result' = Failure("No .app bundle found in Payload") /\ pc' = "finally"
       ELSE UNCHANGED result /\ pc' = "app_info"
    /\ UNCHANGED <<call, disk, tempList, signLog, outFile, ncalls, darwin, bidVars, signerVars, svcVars, fnVars>>

\* get_app_info, then `if new_bundle_id: update_bundle_id(...)`
GetAppInfo ==
    /\ pc = "app_info"
    /\ LET t == disk[call.dir] IN
       IF t.plist = "missing"
       THEN /\ result' = Failure("Info.plist not found")
            /\ pc' = "finally"
            /\ UNCHANGED disk
       ELSE IF t.plist = "bad"
       THEN /\ result' = Failure("Failed to parse Info.plist")
            /\ pc' = "finally"
            /\ UNCHANGED disk
       ELSE /\ disk' = IF Truthy(call.new_bundle_id)
                       THEN WithDir(call.dir, update_bundle_id(t, call.new_bundle_id))
                       ELSE disk
            /\ pc' = "install"
            /\ UNCHANGED result
    /\ UNCHANGED <<call, tempList, signLog, outFile, ncalls, darwin, bidVars, signerVars, svcVars, fnVars>>

\* profile_temp.write_bytes(profile.raw_data); install_provisioning_profile
InstallProfile ==
    /\ pc = "install"
    /\ LET t == disk[call.dir]
           raw == call.profile.raw_data IN
       IF raw.t # "bytes"
       THEN \* write_bytes: TypeError, a bytes-like object is required
            /\ result' = Failure("TypeError")
            /\ pc' = "finally"
            /\ UNCHANGED disk
       ELSE /\ disk' = WithDir(call.dir,
                         install_provisioning_profile(
                            [t EXCEPT !.tempProv = ProvFile(raw.ents)],
                            ProvFile(raw.ents)))
            /\ pc' = "sa_prepare"
            /\ UNCHANGED result
    /\ UNCHANGED <<call, tempList, signLog, outFile, ncalls, darwin, bidVars, signerVars, svcVars, fnVars>>

\* ------------------------------------------------------------------------
\* core.py: SigningCore.sign_app, step by step
\* ------------------------------------------------------------------------
\* The argument tuples tried on a direct sign_app call
SignAppInputs ==
    { [tree |-> t, profile |-> PlainProfile, certificate |-> NaiveCert,
       given |-> FALSE] : t \in BadTrees }
    \cup
    { [tree |-> t, profile |-> p, certificate |-> NaiveCert, given |-> g] :
        t \in IdTrees, p \in BytesProfiles \cup PathProfiles, g \in BOOLEAN }
    \cup
    { [tree |-> t, profile |-> p, certificate |-> c, given |-> FALSE] :
        t \in BinaryTrees, p \in SigningProfiles, c \in CoreCerts }

\* sign_app(app_path, certificate, profile, entitlements) called on its own,
\* on a bundle the caller has unpacked into UserDir
SignAppCall ==
    /\ CanCall
    /\ \E i \in SignAppInputs :
        /\ call' = [NoCall EXCEPT !.op = "sign_app", !.profile = i.profile,
                                  !.certificate = i.certificate, !.dir = UserDir,
                                  !.given = i.given,
                                  !.entitlements = IF i.given THEN EntsPlain
                                                   ELSE EmptyEnts]
        /\ disk' = WithDir(UserDir, i.tree)
    /\ pc' = "sa_prepare"
    /\ result' = NoResult
    /\ signLog' = <<>>
    /\ ncalls' = ncalls + 1
    /\ UNCHANGED <<tempList, outFile, darwin, bidVars, signerVars, svcVars, fnVars>>

\* sign_app up to write_entitlements: app.exists(), get_app_info,
\* calculate_bundle_id / update_bundle_id, get_embedded_entitlements,
\* generate_entitlements, write_entitlements
SignAppPrepare ==
    /\ pc = "sa_prepare"
    /\ LET t == disk[call.dir] IN
       IF ~(t.payload /\ t.app)
       THEN /\ result' = Failure("App not found")
            /\ pc' = AfterSignApp
            /\ UNCHANGED <<disk, call>>
       ELSE IF t.plist # "ok"
       THEN /\ result' = Failure(IF t.plist = "missing" THEN "Info.plist not found"
                                 ELSE "Failed to parse Info.plist")
            /\ pc' = AfterSignApp
            /\ UNCHANGED <<disk, call>>
       ELSE LET new_bundle_id == calculate_bundle_id(t.bundle_id, call.profile.app_id)
                t1 == IF new_bundle_id # t.bundle_id
                      THEN update_bundle_id(t, new_bundle_id) ELSE t
                ents == IF call.given THEN call.entitlements
                        ELSE generate_entitlements(call.profile, new_bundle_id,
                                                   get_embedded_entitlements(t1))
            IN /\ disk' = WithDir(call.dir, [t1 EXCEPT !.hasXcent = TRUE, !.xcent = ents])
               /\ call' = [call EXCEPT !.bundle_id = new_bundle_id]
               /\ pc' = "sa_install"
               /\ UNCHANGED result
    /\ UNCHANGED <<tempList, signLog, outFile, ncalls, darwin, bidVars, signerVars, svcVars, fnVars>>

\* install_provisioning_profile(str(Path(profile.raw_data)), str(app))
SignAppInstall ==
    /\ pc = "sa_install"
    /\ LET t == disk[call.dir]
           raw == call.profile.raw_data IN
       IF raw.t # "str"
       THEN \* Path(bytes): TypeError
            /\ result' = Failure("TypeError")
            /\ pc' = AfterSignApp
            /\ UNCHANGED <<disk, call>>
       ELSE IF ~raw.onDisk
       THEN /\ result' = Failure("Profile not found")
            /\ pc' = AfterSignApp
            /\ UNCHANGED <<disk, call>>
       ELSE /\ disk' = WithDir(call.dir,
                               install_provisioning_profile(t, ProvFile(raw.ents)))
            /\ call' = [call EXCEPT !.todo = t.fw]
            /\ pc' = "sa_fw"
            /\ UNCHANGED result
    /\ UNCHANGED <<tempList, signLog, outFile, ncalls, darwin, bidVars, signerVars, svcVars, fnVars>>

\* a plausible slip: a failing sign_binary is logged and the loop goes on
SignFramework_goes_on ==
    /\ pc = "sa_fw"
    /\ \E e \in call.todo :
        /\ call' = [call EXCEPT !.todo = call.todo \ {e}]
        /\ IF SignableFramework(e)
           THEN \E o \in SignOutcomes :
                  signLog' = Append(signLog, Invocation(e.name, "framework", FALSE, o))
           ELSE UNCHANGED signLog
    /\ UNCHANGED <<pc, result, disk, tempList, outFile, ncalls, darwin, bidVars, signerVars, svcVars, fnVars>>

\* one iteration of `for framework in frameworks_dir.iterdir()`
SignFramework ==
    /\ pc = "sa_fw"
    /\ \E e \in call.todo :
        /\ call' = [call EXCEPT !.todo = call.todo \ {e}]
        /\ IF SignableFramework(e)
           THEN \E o \in SignOutcomes :
                  /\ signLog' = Append(signLog, Invocation(e.name, "framework", FALSE, o))
                  /\ IF o = "ok"
                     THEN UNCHANGED <<pc, result>>
                     ELSE result' = Failure(SignMessage(o)) /\ pc' = AfterSignApp
           ELSE UNCHANGED <<signLog, pc, result>>
    /\ UNCHANGED <<disk, tempList, outFile, ncalls, darwin, bidVars, signerVars, svcVars, fnVars>>

\* a plausible slip: the plug-ins loop is placed after the main executable
FrameworksDone_skips_plugins ==
    /\ pc = "sa_fw"
    /\ call.todo = {}
    /\ pc' = "sa_main"
    /\ UNCHANGED <<call, disk, tempList, signLog, result, outFile, ncalls, darwin, bidVars, signerVars, svcVars, fnVars>>

\* the frameworks loop is over (or Frameworks/ does not exist)
FrameworksDone ==
    /\ pc = "sa_fw"
    /\ call.todo = {}
    /\ call' = [call EXCEPT !.todo = disk[call.dir].plugins]
    /\ pc' = "sa_pl"
    /\ UNCHANGED <<disk, tempList, signLog, result, outFile, ncalls, darwin, bidVars, signerVars, svcVars, fnVars>>

\* a plausible slip: the plug-in binary is signed with the app's entitlements
SignPlugin_with_entitlements ==
    /\ pc = "sa_pl"
    /\ \E e \in call.todo :
        /\ call' = [call EXCEPT !.todo = call.todo \ {e}]
        /\ IF SignablePlugin(e)
           THEN \E o \in SignOutcomes :
                  /\ signLog' = Append(signLog, Invocation(e.name, "plugin", TRUE, o))
                  /\ IF o = "ok"
                     THEN UNCHANGED <<pc, result>>
                     ELSE result' = Failure(SignMessage(o)) /\ pc' = AfterSignApp
           ELSE UNCHANGED <<signLog, pc, result>>
    /\ UNCHANGED <<disk, tempList, outFile, ncalls, darwin, bidVars, signerVars, svcVars, fnVars>>

\* one iteration of `for plugin in plugins_dir.iterdir()`
SignPlugin ==
    /\ pc = "sa_pl"
    /\ \E e \in call.todo :
        /\ call' = [call EXCEPT !.todo = call.todo \ {e}]
        /\ IF SignablePlugin(e)
           THEN \E o \in SignOutcomes :
                  /\ signLog' = Append(signLog, Invocation(e.name, "plugin", FALSE, o))
                  /\ IF o = "ok"
                     THEN UNCHANGED <<pc, result>>
                     ELSE result' = Failure(SignMessage(o)) /\ pc' = AfterSignApp
           ELSE UNCHANGED <<signLog, pc, result>>
    /\ UNCHANGED <<disk, tempList, outFile, ncalls, darwin, bidVars, signerVars, svcVars, fnVars>>

\* the plug-ins loop is over (or PlugIns/ does not exist)
PluginsDone ==
    /\ pc = "sa_pl"
    /\ call.todo = {}
    /\ pc' = "sa_main"
    /\ UNCHANGED <<call, disk, tempList, signLog, result, outFile, ncalls, darwin, bidVars, signerVars, svcVars, fnVars>>

\* the SigningResult sign_app builds after the main executable;
\* certificate.display_name subtracts utcnow() from not_after
SignAppResult(w) ==
    IF call.certificate.aware
    THEN Failure("TypeError")
    ELSE [NoResult EXCEPT !.success = TRUE, !.message = "App signed successfully",
                          !.bundle_id = call.bundle_id, !.warnings = w]

\* the main executable, then the result
SignMain ==
    /\ pc = "sa_main"
    /\ IF disk[call.dir].exe
       THEN \E o \in SignOutcomes :
              /\ signLog' = Append(signLog, Invocation("main", "main", TRUE, o))
              /\ result' = IF o = "ok" THEN SignAppResult(0)
                           ELSE Failure(SignMessage(o))
       ELSE /\ result' = SignAppResult(1)
            /\ UNCHANGED signLog
    /\ pc' = AfterSignApp
    /\ UNCHANGED <<call, disk, tempList, outFile, ncalls, darwin, bidVars, signerVars, svcVars, fnVars>>

\* ------------------------------------------------------------------------
\* core.py: sign_ipa after sign_app
\* ------------------------------------------------------------------------
\* the file at output_ipa
NoOutput == [state |-> "none", tree |-> EmptyTree]
OldOutput == [state |-> "old", tree |-> EmptyTree]

\* `if not result.success: return result`, else create_ipa and return
SignIpaRepack ==
    /\ pc = "post_sign"
    /\ IF ~result.success
       THEN UNCHANGED <<result, outFile>>
       ELSE \E o \in {"ok", "fail_early", "fail_late"} :
              IF o = "ok"
              THEN /\ outFile' = [state |-> "new", tree |-> disk[call.dir]]
                   /\ result' = [result EXCEPT !.has_output = TRUE]
              ELSE /\ result' = Failure("Failed to create IPA")
                   /\ outFile' = IF o = "fail_early" THEN outFile ELSE NoOutput
    /\ pc' = "finally"
    /\ UNCHANGED <<call, disk, tempList, signLog, ncalls, darwin, bidVars, signerVars, svcVars, fnVars>>

\* finally: self.cleanup()
SignIpaFinally ==
    /\ pc = "finally"
    /\ disk' = cleanup(tempList)
    /\ tempList' = <<>>
    /\ pc' = "done"
    /\ UNCHANGED <<call, signLog, result, outFile, ncalls, darwin, bidVars, signerVars, svcVars, fnVars>>

\* ------------------------------------------------------------------------
\* models.py: Certificate.is_valid, ProvisioningProfile.is_valid
\* ------------------------------------------------------------------------
\* not_before <= utcnow() <= not_after (on naive datetimes)
CertificateIsValid(c, t) == c.not_before <= t /\ t <= c.not_after
\* creation_date <= utcnow() <= expiration_date
ProfileIsValid(p, t) == p.creation_date <= t /\ t <= p.expiration_date

\* ------------------------------------------------------------------------
\* annual.py: AnnualSigner
\* ------------------------------------------------------------------------
\* certificates a .p12 may hold: team T or U, listed in the profile or not,
\* valid throughout or at time 1 only, naive or aware validity dates
AnnualCerts ==
    { Cert(team, der, w[1], w[2], aw) :
        team \in {TeamT, TeamU}, der \in {"derT", "derX"},
        w \in {<<0, MaxTime>>, <<1, 1>>}, aw \in BOOLEAN }

\* profiles a .mobileprovision may hold: valid throughout or at time 0 only
AnnualProfiles ==
    { [PlainProfile EXCEPT !.expiration_date = x] : x \in {0, MaxTime} }

P12Files ==
    {P12Missing, [P12Missing EXCEPT !.exists = TRUE]}
    \cup { [exists |-> TRUE, parses |-> TRUE, cert |-> c] : c \in AnnualCerts }
ProvFiles ==
    {ProvMissing, [ProvMissing EXCEPT !.exists = TRUE]}
    \cup { [exists |-> TRUE, parses |-> TRUE, profile |-> p] : p \in AnnualProfiles }
FilePairs == [p12 : P12Files, prov : ProvFiles]

\* the four checks of validate() after both files are parsed
ValidationErrors(c, p, t) ==
    (IF ~CertificateIsValid(c, t) THEN {"Certificate expired"} ELSE {})
    \cup (IF ~ProfileIsValid(p, t) THEN {"Profile expired"} ELSE {})
    \cup (IF \A d \in p.certificates : Sha1Upper(d) # c.fingerprint_sha1
          THEN {"Certificate not found in provisioning profile"} ELSE {})
    \cup (IF c.team_id # p.team_id THEN {"Team ID mismatch"} ELSE {})

\* validate(): the signer afterwards, the answer and the messages; raised
\* when is_valid compares an aware not_before with the naive utcnow()
Validate(a, f, t) ==
    LET missing == (IF ~f.p12.exists THEN {"P12 file not found"} ELSE {})
                   \cup (IF ~f.prov.exists
                         THEN {"Provisioning profile not found"} ELSE {})
        unparsed == (IF ~f.p12.parses THEN {"P12 error"} ELSE {})
                    \cup (IF ~f.prov.parses THEN {"Profile error"} ELSE {})
        loaded == [a EXCEPT
                     !.certificate = IF f.p12.parses THEN f.p12.cert ELSE @,
                     !.has_certificate = @ \/ f.p12.parses,
                     !.profile = IF f.prov.parses THEN f.prov.profile ELSE @,
                     !.has_profile = @ \/ f.prov.parses]
        failed == ValidationErrors(loaded.certificate, loaded.profile, t)
    IN IF missing # {}
       THEN [signer |-> a, ok |-> FALSE, raised |-> FALSE, errors |-> missing]
       ELSE IF unparsed # {}
       THEN [signer |-> loaded, ok |-> FALSE, raised |-> FALSE, errors |-> unparsed]
       ELSE IF loaded.certificate.aware
       THEN [signer |-> loaded, ok |-> FALSE, raised |-> TRUE, errors |-> {}]
       ELSE IF failed # {}
       THEN [signer |-> loaded, ok |-> FALSE, raised |-> FALSE, errors |-> failed]
       ELSE [signer |-> [loaded EXCEPT !.validated = TRUE],
             ok |-> TRUE, raised |-> FALSE, errors |-> {}]

\* a successful validate() that was not needed, for `if not self._validated`
Validated(a) == [signer |-> a, ok |-> TRUE, raised |-> FALSE, errors |-> {}]

\* the input files tried on AnnualSigner.sign_ipa
AnnualArchives ==
    { Zip(t) : t \in {g \in IdTrees : g.bundle_id = IdAB /\ g.embedded = NoFile} }
    \cup { [exists |-> FALSE, zip |-> FALSE, tree |-> EmptyTree] }

\* signer.validate() called by the user
AnnualValidate ==
    /\ CanCall
    /\ \E f \in FilePairs :
        LET v == Validate(an, f, now) IN
        /\ an' = v.signer
        /\ call' = [NoCall EXCEPT !.op = "annual.validate", !.via = "annual",
                                  !.fresh = ~an.validated, !.files = f,
                                  !.at = now]
        /\ result' = IF v.raised THEN Raised("TypeError")
                     ELSE IF v.ok
                     THEN [NoResult EXCEPT !.success = TRUE,
                                           !.message = "Validation successful"]
                     ELSE [Failure("validate") EXCEPT !.checks = v.errors]
    /\ pc' = "done"
    /\ signLog' = <<>>
    /\ ncalls' = ncalls + 1
    /\ UNCHANGED <<disk, tempList, outFile, darwin, now, wk, bidVars, svcVars, fnVars>>

\* AnnualSigner.sign_ipa up to the call of self._core.sign_ipa
AnnualSignIpa ==
    /\ CanCall
    /\ \E f \in FilePairs, a \in AnnualArchives, n \in {NoneStr, IdBA} :
        LET v == IF an.validated THEN Validated(an) ELSE Validate(an, f, now)
            me == [NoCall EXCEPT !.op = "annual.sign_ipa", !.via = "annual",
                                 !.fresh = ~an.validated, !.files = f, !.at = now,
                                 !.archive = a, !.new_bundle_id = n]
        IN
        /\ an' = v.signer
        /\ IF v.raised
           THEN result' = Raised("TypeError") /\ pc' = "done" /\ call' = me
           ELSE IF ~v.ok
           THEN /\ result' = [Failure("Validation failed") EXCEPT !.checks = v.errors]
                /\ pc' = "done"
                /\ call' = me
           ELSE IF ~a.exists
           THEN result' = Failure("Input IPA not found") /\ pc' = "done" /\ call' = me
           ELSE /\ result' = NoResult
                /\ pc' = "extract"
                /\ call' = [me EXCEPT !.op = "sign_ipa",
                                      !.certificate = v.signer.certificate,
                                      !.profile = v.signer.profile]
    /\ signLog' = <<>>
    /\ ncalls' = ncalls + 1
    /\ disk' = [d \in (DOMAIN disk) \ {UserDir} |-> disk[d]]
    /\ UNCHANGED <<tempList, outFile, darwin, now, wk, bidVars, svcVars, fnVars>>

\* time passes between two calls
Tick ==
    /\ pc \in {"idle", "done"}
    /\ now < MaxTime
    /\ now' = now + 1
    /\ UNCHANGED <<coreVars, an, wk, bidVars, svcVars, fnVars>>

\* ------------------------------------------------------------------------
\* weekly.py: WeeklySigner
\* ------------------------------------------------------------------------
\* the attributes AppleAuthenticator.__init__ sets
AuthenticatorAttrs ==
    {"log_callback", "_session", "_http", "_anisette_data", "_auth_headers",
     "_pending_session"}
\* the fields of the AppleSession dataclass
AppleSessionAttrs ==
    {"dsid", "token", "scnt", "session_id", "auth_type", "team_id",
     "created_at", "expires_at"}

\* _dev_request builds its headers from session.dsid and
\* session.session_token before anything is sent: AttributeError when the
\* session has no such attribute
DevRequestRaises == ~({"dsid", "session_token"} \subseteq AppleSessionAttrs)

\* create_certificate: "ok", or the message of the WeeklySigningError raised
\* (reading self._auth._device_id for the request body comes first)
CreateCertificate(w) ==
    IF ~w.crypto THEN "cryptography module required"
    ELSE IF "_device_id" \notin AuthenticatorAttrs \/ DevRequestRaises
    THEN "Failed to create certificate"
    ELSE IF w.answers THEN "ok" ELSE "No certificate returned from Apple"

\* create_provisioning_profile: "ok", or the message of the error raised;
\* register_device goes first, and its addDevice request must get through
CreateProvisioningProfile(w, udid_ok) ==
    IF ~udid_ok THEN "Invalid UDID format"
    ELSE IF DevRequestRaises THEN "Failed to register device"
    ELSE IF w.answers THEN "ok" ELSE "No profile returned from Apple"

\* the certificate Apple signs for the CSR
WeeklyCert(w, t) == Cert(w.team_id, "derW", t, MaxTime, w.aware)

\* the ProvisioningProfile object create_provisioning_profile builds:
\* `certificates` is not passed and keeps its default, the empty list
WeeklyProfile(w, bundle_id, t) ==
    [app_id |-> w.team_id \o <<".">> \o bundle_id, team_id |-> w.team_id,
     entitlements |-> EntsPlain, raw_data |-> RawBytes(EntsPlain),
     certificates |-> {}, creation_date |-> t, expiration_date |-> MaxTime]

\* the input files tried on WeeklySigner.sign_ipa
WeeklyArchives ==
    { Zip(t) : t \in {g \in IdTrees : g.bundle_id = IdAB /\ g.embedded = NoFile} }
    \cup { Zip(t) : t \in BadTrees }
    \cup { [exists |-> e, zip |-> FALSE, tree |-> EmptyTree] : e \in BOOLEAN }

\* WeeklySigner.sign_ipa: the three early returns
WeeklySignIpa ==
    /\ CanCall
    /\ \E a \in WeeklyArchives, u \in BOOLEAN, n \in {NoneStr, IdBA} :
        /\ call' = [NoCall EXCEPT !.op = "weekly.sign_ipa", !.via = "weekly",
                                  !.archive = a, !.new_bundle_id = n, !.udid = u,
                                  !.at = now]
        /\ IF ~wk.authenticated
           THEN result' = Failure("Not authenticated") /\ pc' = "done"
           ELSE IF ~u
           THEN result' = Failure("Device UDID is required") /\ pc' = "done"
           ELSE IF ~a.exists
           THEN result' = Failure("Input IPA not found") /\ pc' = "done"
           ELSE result' = NoResult /\ pc' = "w_inspect"
    /\ signLog' = <<>>
    /\ ncalls' = ncalls + 1
    /\ disk' = [d \in (DOMAIN disk) \ {UserDir} |-> disk[d]]
    /\ UNCHANGED <<tempList, outFile, darwin, signerVars, bidVars, svcVars, fnVars>>

\* self._core.extract_ipa, find_app_in_payload, get_app_info inside the
\* try of WeeklySigner.sign_ipa, whose handler only builds the result
WeeklyInspect ==
    /\ pc = "w_inspect"
    /\ LET d == FreshDir
           t == call.archive.tree IN
       /\ tempList' = Append(tempList, d)
       /\ call' = [call EXCEPT
                     !.dir = d,
                     !.bundle_id = IF Truthy(call.new_bundle_id)
                                   THEN call.new_bundle_id ELSE t.bundle_id]
       /\ disk' = WithDir(d, IF call.archive.zip THEN t ELSE EmptyTree)
       /\ IF ~call.archive.zip
          THEN result' = Failure("Failed to extract IPA") /\ pc' = "done"
          ELSE IF ~t.payload
          THEN result' = Failure("Payload folder not found") /\ pc' = "done"
          ELSE IF ~t.app
          THEN result' = Failure("No .app bundle found in Payload") /\ pc' = "done"
          ELSE IF t.plist # "ok"
          THEN /\ result' = Failure(IF t.plist = "missing" THEN "Info.plist not found"
                                    ELSE "Failed to parse Info.plist")
               /\ pc' = "done"
          ELSE UNCHANGED result /\ pc' = "w_identity"
    /\ UNCHANGED <<signLog, outFile, ncalls, darwin, signerVars, bidVars, svcVars, fnVars>>

\* the certificate (cached or created), create_provisioning_profile, and
\* the call of self._core.sign_ipa
WeeklyIdentity ==
    /\ pc = "w_identity"
    /\ LET made == IF wk.certificates # <<>> THEN "ok" ELSE CreateCertificate(wk)
           certs == IF wk.certificates # <<>> \/ made # "ok" THEN wk.certificates
                    ELSE <<WeeklyCert(wk, now)>>
           prof == CreateProvisioningProfile(wk, TRUE)
       IN
       IF made # "ok"
       THEN result' = Failure(made) /\ pc' = "done" /\ UNCHANGED <<wk, call>>
       ELSE IF prof # "ok"
       THEN /\ result' = Failure(prof)
            /\ pc' = "done"
            /\ wk' = [wk EXCEPT !.certificates = certs]
            /\ UNCHANGED call
       ELSE /\ wk' = [wk EXCEPT !.certificates = certs,
                                !.app_ids = @ \cup {call.bundle_id}]
            /\ call' = [call EXCEPT !.op = "sign_ipa",
                                    !.certificate = certs[1],
                                    !.profile = WeeklyProfile(wk, call.bundle_id, now)]
            /\ pc' = "extract"
            /\ UNCHANGED result
    /\ UNCHANGED <<disk, tempList, signLog, outFile, ncalls, darwin, now, an, bidVars, svcVars, fnVars>>

\* ------------------------------------------------------------------------
\* apple_auth.py: AppleAuthenticator
\* ------------------------------------------------------------------------
\* _session is None
NoSession == [present |-> FALSE, auth_type |-> "none", sid |-> 0, team_id |-> NoneStr]
\* _pending_session is {}
NoPending == [present |-> FALSE, sid |-> 0]

\* A fresh authenticator.  anisette: which header set _anisette_data holds,
\* 0 for {}; signins: the session_data dicts made so far, each sign-in
\* attempt making the next one (sid names the dict, and so its scnt and
\* session id tokens)
NoAuth == [session |-> NoSession, anisette |-> 0, pending |-> NoPending,
           http |-> FALSE, signins |-> 0]

\* nothing called yet
NoRet == [n |-> 0, op |-> "none", code |-> "none", value |-> "none",
          fetched |-> FALSE, signin |-> "none", verify |-> "none",
          was_auth |-> FALSE, arg |-> <<>>, on_server |-> FALSE, user |-> "none"]

\* AppleAuthenticator.is_authenticated, for sessions that have not expired
is_authenticated(a) == a.session.present

\* two_factor_code: None or "" ("none"), six digits once blanks and dashes
\* are removed ("good"), anything else ("bad")
Codes == {"none", "good", "bad"}

\* what the sign-in POST and the verify POST may answer
SigninAnswers == {"200", "409", "401", "403", "503", "500"}
VerifyAnswers == {"200", "204", "401", "400", "500"}

\* a request on the wire: its endpoint, the anisette set in its headers
\* (_build_auth_headers: headers.update(self._anisette_data)), the
\* session_data whose scnt / session id it carries, and the answer
Req(kind, anisette, sid, status) ==
    [kind |-> kind, anisette |-> anisette, sid |-> sid, status |-> status]

\* _create_session(session_data)
create_session(a, sid, needs_2fa) ==
    [a EXCEPT !.session = [present |-> TRUE,
                           auth_type |-> IF needs_2fa THEN "2fa" ELSE "password",
                           sid |-> sid, team_id |-> NoneStr]]

\* what a call of the authenticator did: the authenticator afterwards, the
\* requests it sent, the value returned ("2fa": TwoFactorRequired raised)
Did(a, reqs, value, fetched, signin, verify) ==
    [auth |-> a, reqs |-> reqs, value |-> value, fetched |-> fetched,
     signin |-> signin, verify |-> verify]

\* a plausible slip: any answer to the verify POST authenticates
verify_2fa_any_answer(a, sid, code, before, fetched, signin) ==
    IF code = "bad"
    THEN { Did(a, before, "false", fetched, signin, "none") }
    ELSE { Did(create_session(a, sid, TRUE),
               before \o <<Req("verify", a.anisette, sid, s),
                           Req("trust", a.anisette, sid, "200")>>,
               "true", fetched, signin, s) : s \in VerifyAnswers }

\* _verify_2fa(session_data, code), after the requests `before`
verify_2fa(a, sid, code, before, fetched, signin) ==
    IF code = "bad"
    THEN { Did(a, before, "false", fetched, signin, "none") }
    ELSE { IF s \in {"200", "204"}
           THEN Did(create_session(a, sid, TRUE),
                    before \o <<Req("verify", a.anisette, sid, s),
                                Req("trust", a.anisette, sid, "200")>>,
                    "true", fetched, signin, s)
           ELSE Did(a, before \o <<Req("verify", a.anisette, sid, s)>>,
                    "false", fetched, signin, s) : s \in VerifyAnswers }

\* _request_2fa_code: the PUT is accepted, or it and both fall-backs are tried
request_2fa_code(a, sid) ==
    { <<Req("push", a.anisette, sid, "200")>>,
      <<Req("push", a.anisette, sid, "500"), Req("trust", a.anisette, sid, "500"),
        Req("phone", a.anisette, sid, "200")>> }

\* a plausible slip: a pending session is kept for a rejected sign-in too
signin_keeps_pending(a0, code, before) ==
    LET sid == a0.signins + 1
        a == [a0 EXCEPT !.signins = sid]
        init == before \o <<Req("init", a.anisette, 0, "200")>>
    IN  { Did(a0, before, "false", TRUE, "none", "none") }
        \cup UNION { LET reqs == init \o <<Req("signin", a.anisette, sid, s)>> IN
               IF s = "200"
               THEN { Did(create_session(a, sid, FALSE), reqs, "true", TRUE, s, "none") }
               ELSE IF s = "409" /\ code # "none"
               THEN verify_2fa(a, sid, code, reqs, TRUE, s)
               ELSE { Did([a EXCEPT !.pending = [present |-> TRUE, sid |-> sid]],
                          reqs \o push, IF s = "409" THEN "2fa" ELSE "false",
                          TRUE, s, "none")
                      : push \in request_2fa_code(a, sid) }
             : s \in SigninAnswers }

\* _init_and_signin and what authenticate does with its answer
signin(a0, code, before) ==
    LET sid == a0.signins + 1
        a == [a0 EXCEPT !.signins = sid]
        init == before \o <<Req("init", a.anisette, 0, "200")>>
    IN  { Did(a0, before, "false", TRUE, "none", "none") }
        \cup UNION { LET reqs == init \o <<Req("signin", a.anisette, sid, s)>> IN
               IF s = "200"
               THEN { Did(create_session(a, sid, FALSE), reqs, "true", TRUE, s, "none") }
               ELSE IF s = "409"
               THEN IF code # "none"
                    THEN verify_2fa(a, sid, code, reqs, TRUE, s)
                    ELSE { Did([a EXCEPT !.pending = [present |-> TRUE, sid |-> sid]],
                               reqs \o push, "2fa", TRUE, s, "none")
                           : push \in request_2fa_code(a, sid) }
               ELSE { Did(a, reqs, "false", TRUE, s, "none") }
             : s \in SigninAnswers }

\* authenticate(apple_id, password, two_factor_code)
authenticate(a0, code) ==
    LET a == [a0 EXCEPT !.http = TRUE] IN
    IF code # "none" /\ a.pending.present
    THEN { IF d.value = "true"
           THEN [d EXCEPT !.auth = [d.auth EXCEPT !.pending = NoPending]]
           ELSE d
           : d \in verify_2fa(a, a.pending.sid, code, <<>>, FALSE, "none") }
    ELSE { Did(a, <<Req("anisette", 0, 0, "500")>>, "false", FALSE, "none", "none") }
         \cup UNION { signin([a EXCEPT !.anisette = v],
                             code, <<Req("anisette", 0, 0, "200")>>)
                      : v \in 1..MaxAnisette }

\* logout()
logout(a) ==
    [a EXCEPT !.session = NoSession, !.anisette = 0, !.http = FALSE]

\* the file load_session reads: unreadable, or a saved session (expired or
\* not) with the anisette set saved along with it
SessionFiles ==
    { [readable |-> FALSE, valid |-> FALSE, anisette |-> 0] }
    \cup { [readable |-> TRUE, valid |-> v, anisette |-> x] :
             v \in BOOLEAN, x \in 0..1 }

\* load_session(path)
load_session(a, f) ==
    IF ~f.readable THEN a
    ELSE [a EXCEPT !.anisette = f.anisette,
                   !.session = IF f.valid
                               THEN [present |-> TRUE, auth_type |-> "password",
                                     sid |-> 0, team_id |-> NoneStr]
                               ELSE NoSession]

CanCallAuth == ret.n < MaxAuthCalls

\* the accounts whose apple_id and password a caller may pass
Users == {"A", "B"}

\* one authenticate call; each request it sends is noted with the account
\* whose credentials the call was given
Authenticate ==
    /\ CanCallAuth
    /\ \E user \in Users, code \in Codes : \E d \in authenticate(auth, code) :
        /\ auth' = d.auth
        /\ net' = net \o [i \in 1..Len(d.reqs) |-> d.reqs[i] @@ [user |-> user]]
        /\ ret' = [NoRet EXCEPT !.n = ret.n + 1, !.op = "authenticate",
                                !.user = user,
                                !.code = code, !.value = d.value,
                                !.fetched = d.fetched, !.signin = d.signin,
                                !.verify = d.verify,
                                !.was_auth = is_authenticated(auth)]
    /\ UNCHANGED <<coreVars, signerVars, bidVars, fnVars, dev>>

\* one logout call
Logout ==
    /\ CanCallAuth
    /\ auth' = logout(auth)
    /\ ret' = [NoRet EXCEPT !.n = ret.n + 1, !.op = "logout",
                            !.was_auth = is_authenticated(auth)]
    /\ UNCHANGED <<coreVars, signerVars, bidVars, fnVars, dev, net>>

\* one load_session call
LoadSession ==
    /\ CanCallAuth
    /\ \E f \in SessionFiles :
        /\ auth' = load_session(auth, f)
        /\ ret' = [NoRet EXCEPT !.n = ret.n + 1, !.op = "load_session",
                                !.value = IF f.readable /\ f.valid
                                          THEN "true" ELSE "false",
                                !.was_auth = is_authenticated(auth)]
    /\ UNCHANGED <<coreVars, signerVars, bidVars, fnVars, dev, net>>

\* ------------------------------------------------------------------------
\* weekly.py: the provisioning operations of WeeklySigner
\* ------------------------------------------------------------------------
\* the length register_device asks of a UDID
UdidLen == 40

\* The udid argument of register_device: `lead` and `trail` whitespace
\* characters around a core of `len` characters that neither starts nor ends
\* with whitespace and is made of the classes in `chars`
UdidArgs ==
    { [lead |-> l, trail |-> t, len |-> n, chars |-> c] :
        l \in 0..1, t \in 0..1, n \in {UdidLen - 1, UdidLen, UdidLen + 1},
        c \in (SUBSET {"digit", "A-F", "a-f", "dash", "other", "blank"}) \ {{}} }
    \cup { [lead |-> l, trail |-> 0, len |-> 0, chars |-> {}] : l \in 0..1 }

\* udid.strip().upper(), then the length and alphabet test of register_device
udid_accepted(u) ==
    /\ u.len = UdidLen
    /\ u.chars \subseteq {"digit", "A-F", "a-f", "dash"}

\* the first teams listTeams may answer with
TeamLists == {<<>>, <<TeamT>>, <<TeamU, TeamT>>}

\* the header names _dev_request puts on a request
DevHeaders ==
    {"Content-Type", "User-Agent", "X-Xcode-Version", "X-Apple-I-Identity-Id",
     "X-Apple-GS-Token"}

\* One invocation self._dev_request("POST", <endpoint>, json={"teamId":
\* self._team_id, ...}): the headers it managed to build and whether the
\* request went out (`sent`); `at` counts the requests on the wire before it
dev_request(w, endpoint) ==
    LET out == w.authenticated /\ ~DevRequestRaises IN
    [endpoint |-> endpoint, teamId |-> w.team_id, authenticated |-> w.authenticated,
     headers |-> IF out THEN DevHeaders ELSE {}, sent |-> out, at |-> Len(net)]

\* the end of a provisioning call: the signer afterwards, the _dev_request
\* invocations made, the value returned or the error raised
Provision(op, arg, on_server, w, calls, value) ==
    /\ CanCallAuth
    /\ wk' = w
    /\ dev' = dev \o calls
    /\ ret' = [NoRet EXCEPT !.n = ret.n + 1, !.op = op, !.arg = arg,
                            !.on_server = on_server, !.value = value,
                            !.was_auth = wk.authenticated]
    /\ UNCHANGED <<coreVars, now, an, bidVars, fnVars, auth, net>>

\* WeeklySigner.authenticate: AppleAuthenticator.authenticate, then get_teams
WeeklyAuthenticate ==
    /\ CanCallAuth
    /\ \E code \in Codes : \E d \in authenticate(auth, code) :
        \E t \in IF d.value = "true" THEN TeamLists ELSE {<<>>} :
        LET ok == d.value = "true"
            first == IF ok /\ t # <<>> THEN t[1] ELSE NoneStr
        IN
        /\ auth' = IF first # NoneStr /\ d.auth.session.team_id = NoneStr
                   THEN [d.auth EXCEPT !.session.team_id = first] ELSE d.auth
        /\ net' = net \o d.reqs \o
                  (IF ok THEN << [kind |-> "listTeams", anisette |-> d.auth.anisette,
                                  sid |-> 0, status |-> "200", teams |-> t,
                                  authenticated |-> is_authenticated(d.auth)] >>
                   ELSE <<>>)
        /\ wk' = [wk EXCEPT !.authenticated = is_authenticated(d.auth),
                            !.team_id = IF first # NoneStr THEN first ELSE @]
        /\ ret' = [NoRet EXCEPT !.n = ret.n + 1, !.op = "authenticate",
                                !.code = code, !.value = d.value,
                                !.fetched = d.fetched, !.signin = d.signin,
                                !.verify = d.verify, !.arg = t,
                                !.was_auth = is_authenticated(auth)]
    /\ UNCHANGED <<coreVars, now, an, bidVars, fnVars, dev>>

\* WeeklySigner.get_certificates
GetCertificates ==
    LET c == dev_request(wk, "listAllDevelopmentCerts") IN
    IF ~wk.authenticated
    THEN Provision("get_certificates", <<>>, FALSE, wk, <<>>, "Not authenticated")
    ELSE Provision("get_certificates", <<>>, FALSE, wk, <<c>>,
                   IF c.sent /\ wk.answers THEN "certRequests" ELSE "[]")

\* WeeklySigner.create_certificate: the json argument reads
\* self._auth._device_id before _dev_request is entered
WeeklyCreateCertificate ==
    LET made == CreateCertificate(wk)
        calls == IF wk.crypto /\ "_device_id" \in AuthenticatorAttrs
                 THEN <<dev_request(wk, "submitDevelopmentCSR")>> ELSE <<>>
    IN
    IF ~wk.authenticated
    THEN Provision("create_certificate", <<>>, FALSE, wk, <<>>, "Not authenticated")
    ELSE Provision("create_certificate", <<>>, FALSE,
                   IF made = "ok"
                   THEN [wk EXCEPT !.certificates = Append(@, WeeklyCert(wk, now))]
                   ELSE wk,
                   calls, made)

\* WeeklySigner.register_app_id(b), `on_server` telling whether the team
\* has b registered already
RegisterAppId ==
    \E b \in {IdAB, IdBA}, on_server \in BOOLEAN :
       LET list == dev_request(wk, "listAppIds")
           add == dev_request(wk, "addAppId")
           known == [wk EXCEPT !.app_ids = @ \cup {b}]
       IN
       IF ~wk.authenticated
       THEN Provision("register_app_id", b, on_server, wk, <<>>, "Not authenticated")
       ELSE IF b \in wk.app_ids
       THEN Provision("register_app_id", b, on_server, wk, <<>>, "cached")
       ELSE IF list.sent /\ wk.answers /\ on_server
       THEN Provision("register_app_id", b, on_server, known, <<list>>, "existing")
       ELSE IF add.sent /\ wk.answers
       THEN Provision("register_app_id", b, on_server, known, <<list, add>>, "created")
       ELSE Provision("register_app_id", b, on_server, wk, <<list, add>>,
                      "Failed to register App ID")

\* WeeklySigner.register_device(udid), `on_server` telling whether the team
\* has the device registered already
RegisterDevice ==
    \E u \in {a \in UdidArgs : a.chars = {"digit"} /\ a.trail = 0 /\ a.len <= UdidLen},
       on_server \in BOOLEAN :
       LET list == dev_request(wk, "listDevices")
           add == dev_request(wk, "addDevice")
       IN
       IF ~wk.authenticated
       THEN Provision("register_device", u, on_server, wk, <<>>, "Not authenticated")
       ELSE IF ~udid_accepted(u)
       THEN Provision("register_device", u, on_server, wk, <<>>, "Invalid UDID format")
       ELSE IF list.sent /\ wk.answers /\ on_server
       THEN Provision("register_device", u, on_server, wk, <<list>>, "true")
       ELSE IF add.sent /\ wk.answers
       THEN Provision("register_device", u, on_server, wk, <<list, add>>, "true")
       ELSE Provision("register_device", u, on_server, wk, <<list, add>>,
                      "Failed to register device")

\* ------------------------------------------------------------------------
\* calculate_bundle_id applied to drawn arguments
\* ------------------------------------------------------------------------
CalculateBundleId ==
    /\ ~bidOut.done
    /\ bidOut' = [done |-> TRUE,
                  value |-> calculate_bundle_id(bidIn.original, bidIn.app_id)]
    /\ UNCHANGED <<bidIn, coreVars, signerVars, svcVars, fnVars>>

\* ------------------------------------------------------------------------
\* Specifications
\* ------------------------------------------------------------------------
NoDisk == [x \in {} |-> EmptyTree]
BidIdle ==
    /\ bidIn = [original |-> <<>>, app_id |-> <<>>]
    /\ bidOut = [done |-> TRUE, value |-> <<>>]
\* signers that are not in use
AnnualIdle ==
    an = [validated |-> FALSE, certificate |-> NaiveCert, has_certificate |-> FALSE,
          profile |-> PlainProfile, has_profile |-> FALSE]
WeeklyIdle ==
    wk = [authenticated |-> FALSE, team_id |-> NoneStr, certificates |-> <<>>,
          app_ids |-> {}, crypto |-> FALSE, answers |-> FALSE, aware |-> FALSE]

\* an authenticator and a provisioning client that are not in use
ServicesIdle ==
    /\ auth = NoAuth
    /\ net = <<>>
    /\ dev = <<>>
    /\ ret = NoRet
\* no function under test
FnIdle ==
    /\ fnIn = <<>>
    /\ fnOut = [done |-> FALSE]

CoreIdle ==
    /\ pc = "idle"
    /\ call = NoCall
    /\ disk = NoDisk
    /\ tempList = <<>>
    /\ signLog = <<>>
    /\ result = NoResult
    /\ ncalls = 0

\* the signing core, called directly
Init ==
    /\ CoreIdle
    /\ outFile \in {NoOutput, OldOutput}
    /\ darwin \in BOOLEAN
    /\ BidIdle
    /\ now = 0
    /\ AnnualIdle
    /\ WeeklyIdle
    /\ ServicesIdle
    /\ FnIdle

\* the steps of sign_ipa, with sign_app up to the second installation of the
\* profile
SignIpaStep ==
    \/ ExtractIpa
    \/ FindApp
    \/ GetAppInfo
    \/ InstallProfile
    \/ SignAppPrepare
    \/ SignAppInstall
    \/ SignIpaRepack
    \/ SignIpaFinally

\* the signing loops of sign_app, after the profile is installed
SignAppStep ==
    \/ SignFramework
    \/ FrameworksDone
    \/ SignPlugin
    \/ PluginsDone
    \/ SignMain

CoreStep == SignIpaStep \/ SignAppStep

Next ==
    \/ SignIpaCall
    \/ SignAppCall
    \/ CoreStep

Spec == Init /\ [][Next]_vars

\* calculate_bundle_id as a function of its arguments
BidInit ==
    /\ CoreIdle
    /\ outFile = NoOutput
    /\ darwin = FALSE
    /\ bidIn \in [original : StrsUpTo({"a", "b", "."}, MaxIdLen),
                  app_id : StrsUpTo({"a", ".", "*"}, MaxAppIdLen)]
    /\ bidOut = [done |-> FALSE, value |-> <<>>]
    /\ now = 0
    /\ AnnualIdle
    /\ WeeklyIdle
    /\ ServicesIdle
    /\ FnIdle

BidNext == CalculateBundleId

SpecBundleId == BidInit /\ [][BidNext]_vars

\* an AnnualSigner in use
AnnualInit ==
    /\ CoreIdle
    /\ outFile \in {NoOutput, OldOutput}
    /\ darwin \in BOOLEAN
    /\ BidIdle
    /\ now = 0
    /\ AnnualIdle
    /\ WeeklyIdle
    /\ ServicesIdle
    /\ FnIdle

\* get_profile_info hands over the bytes of the .mobileprovision as
\* raw_data, so sign_app stops at SignAppInstall and SignAppStep has no
\* enabled step here
AnnualNext ==
    \/ AnnualValidate
    \/ AnnualSignIpa
    \/ Tick
    \/ SignIpaStep

SpecAnnual == AnnualInit /\ [][AnnualNext]_vars

\* a WeeklySigner in use: logged in or not, with the first team of listTeams
\* (none when the list was empty), on a host with or without cryptography
WeeklyInit ==
    /\ CoreIdle
    /\ outFile \in {NoOutput, OldOutput}
    /\ darwin \in BOOLEAN
    /\ BidIdle
    /\ now = 0
    /\ AnnualIdle
    /\ wk \in { [authenticated |-> a, team_id |-> t, certificates |-> <<>>,
                 app_ids |-> {}, crypto |-> c, answers |-> r, aware |-> w] :
                a \in BOOLEAN, t \in {TeamT, NoneStr}, c \in BOOLEAN,
                r \in BOOLEAN, w \in BOOLEAN }
    /\ ServicesIdle
    /\ FnIdle

\* CreateCertificate never answers "ok", so WeeklyIdentity never hands a
\* pair to SigningCore.sign_ipa and no step of the core is enabled here
WeeklyNext ==
    \/ WeeklySignIpa
    \/ WeeklyInspect
    \/ WeeklyIdentity

SpecWeekly == WeeklyInit /\ [][WeeklyNext]_vars

\* an AppleAuthenticator in use
AuthInit ==
    /\ CoreIdle
    /\ outFile = NoOutput
    /\ darwin = FALSE
    /\ BidIdle
    /\ now = 0
    /\ AnnualIdle
    /\ WeeklyIdle
    /\ ServicesIdle
    /\ FnIdle

AuthNext ==
    \/ Authenticate
    \/ Logout
    \/ LoadSession

SpecAuth == AuthInit /\ [][AuthNext]_vars

\* a WeeklySigner before authenticate, on a host with or without the
\* cryptography module, with Apple answering what reaches it or not
ProvisionInit ==
    /\ CoreIdle
    /\ outFile = NoOutput
    /\ darwin = FALSE
    /\ BidIdle
    /\ now = 0
    /\ AnnualIdle
    /\ wk \in { [authenticated |-> FALSE, team_id |-> NoneStr, certificates |-> <<>>,
                 app_ids |-> {}, crypto |-> c, answers |-> r, aware |-> FALSE] :
                c \in BOOLEAN, r \in BOOLEAN }
    /\ ServicesIdle
    /\ FnIdle

ProvisionNext ==
    \/ WeeklyAuthenticate
    \/ GetCertificates
    \/ WeeklyCreateCertificate
    \/ RegisterAppId
    \/ RegisterDevice

SpecProvision == ProvisionInit /\ [][ProvisionNext]_vars

\* ------------------------------------------------------------------------
\* register_device's UDID test and _sign_adhoc applied to drawn arguments
\* ------------------------------------------------------------------------
\* MH_MAGIC, MH_MAGIC_64, FAT_MAGIC, FAT_CIGAM as the four bytes that
\* struct.unpack(">I", ...) reads them from, first byte first
MachoMagics ==
    { <<254, 237, 250, 206>>, <<254, 237, 250, 207>>,
      <<202, 254, 186, 190>>, <<190, 186, 254, 202>> }

\* the files handed to _sign_adhoc: up to MaxFileLen bytes, each one of the
\* bytes of MH_MAGIC / MH_MAGIC_64 or zero
BinaryFiles ==
    UNION { [1..n -> {0, 206, 207, 237, 250, 254}] : n \in 0..MaxFileLen }

\* _sign_adhoc(binary_path, entitlements_path) on a file holding `data`:
\* whether the file was taken for a Mach-O, the file afterwards, the value
\* returned
sign_adhoc(data) ==
    IF Len(data) < 4
    THEN [macho |-> FALSE, data |-> data, value |-> TRUE]
    ELSE IF SubSeq(data, 1, 4) \notin MachoMagics
    THEN [macho |-> FALSE, data |-> data, value |-> TRUE]
    ELSE [macho |-> TRUE, data |-> data, value |-> TRUE]

\* ------------------------------------------------------------------------
\* crypto_utils.py: ProvisioningProfileParser._extract_plist
\* ------------------------------------------------------------------------
\* The bytes handed to _extract_plist, cut into the pieces the function
\* looks for: "<?xml", "<plist", "</plist>" and any other byte ("_")
PlistInputs ==
    UNION { [1..n -> {"<?xml", "<plist", "</plist>", "_"}] : n \in 0..MaxPlistLen }

\* _extract_plist(data); find / rfind answer 0 here where Python answers -1,
\* and data[a:b] is empty when b <= a
extract_plist(data) ==
    LET at(m) == { i \in 1..Len(data) : data[i] = m }
        find(m) == IF at(m) = {} THEN 0 ELSE SetMin(at(m))
        plist_start == IF find("<?xml") # 0 THEN find("<?xml") ELSE find("<plist")
        plist_end == IF at("</plist>") = {} THEN 0 ELSE SetMax(at("</plist>"))
    IN IF plist_start = 0 \/ plist_end = 0
       THEN [raised |-> TRUE, data |-> <<>>]
       ELSE [raised |-> FALSE, data |-> SubSeq(data, plist_start, plist_end)]

\* ------------------------------------------------------------------------
\* apple_auth.py: one request through the session _get_http builds
\* ------------------------------------------------------------------------
\* Retry(total=2, backoff_factor=0.5)
RetryTotal == 2

\* The sign-in POST of _init_and_signin sent through the mounted adapter;
\* answers[i] is what the i-th attempt meets: a status, or "neterr" for a
\* connection that fails.  The Retry object is given no status_forcelist, so
\* the adapter sends again after a failed connection only, while retries
\* are left; a response, whatever its status, goes back to the caller, which
\* raises AuthenticationError for 503.
post_signin(answers) ==
    LET final == { i \in 1..(RetryTotal + 1) :
                     answers[i] # "neterr" \/ i = RetryTotal + 1 }
        n == SetMin(final)
    IN [attempts |-> n, answer |-> answers[n], failed |-> answers[n] # "200"]

PureInit ==
    /\ CoreIdle
    /\ outFile = NoOutput
    /\ darwin = FALSE
    /\ BidIdle
    /\ now = 0
    /\ AnnualIdle
    /\ WeeklyIdle
    /\ ServicesIdle
    /\ fnIn \in { [f |-> "register_device", arg |-> u] : u \in UdidArgs }
           \cup { [f |-> "_sign_adhoc", arg |-> d] : d \in BinaryFiles }
           \cup { [f |-> "_extract_plist", arg |-> d] : d \in PlistInputs }
           \cup { [f |-> "signin", arg |-> a] :
                     a \in [1..(RetryTotal + 1) -> {"200", "503", "neterr"}] }
    /\ fnOut = [done |-> FALSE]

\* the UDID test of register_device on the drawn argument
ValidateUdid ==
    /\ ~fnOut.done
    /\ fnIn.f = "register_device"
    /\ fnOut' = [done |-> TRUE, accepted |-> udid_accepted(fnIn.arg)]
    /\ UNCHANGED <<coreVars, signerVars, bidVars, svcVars, fnIn>>

\* sign_binary on a host without codesign: _sign_adhoc on the drawn file
SignAdhoc ==
    /\ ~fnOut.done
    /\ fnIn.f = "_sign_adhoc"
    /\ ~darwin
    /\ fnOut' = [done |-> TRUE] @@ sign_adhoc(fnIn.arg)
    /\ UNCHANGED <<coreVars, signerVars, bidVars, svcVars, fnIn>>

\* _extract_plist on the drawn bytes
ExtractPlist ==
    /\ ~fnOut.done
    /\ fnIn.f = "_extract_plist"
    /\ fnOut' = [done |-> TRUE] @@ extract_plist(fnIn.arg)
    /\ UNCHANGED <<coreVars, signerVars, bidVars, svcVars, fnIn>>

\* the sign-in POST against a server answering as drawn
PostSignin ==
    /\ ~fnOut.done
    /\ fnIn.f = "signin"
    /\ fnOut' = [done |-> TRUE] @@ post_signin(fnIn.arg)
    /\ UNCHANGED <<coreVars, signerVars, bidVars, svcVars, fnIn>>

PureNext == ValidateUdid \/ SignAdhoc \/ ExtractPlist \/ PostSignin

SpecPure == PureInit /\ [][PureNext]_vars

\* ------------------------------------------------------------------------
\* core.py: sign_ipa called from two threads on one SigningCore
\* ------------------------------------------------------------------------
\* Here pc, call and result hold one entry per thread; disk and tempList
\* (self._temp_dirs) are the ones the threads share.
Threads == {1, 2}

ConcInit ==
    /\ pc = [t \in Threads |-> "idle"]
    /\ call = [t \in Threads |-> NoCall]
    /\ result = [t \in Threads |-> NoResult]
    /\ disk = NoDisk
    /\ tempList = <<>>
    /\ signLog = <<>>
    /\ ncalls = 0
    /\ outFile = NoOutput
    /\ darwin = FALSE
    /\ BidIdle
    /\ now = 0
    /\ AnnualIdle
    /\ WeeklyIdle
    /\ ServicesIdle
    /\ FnIdle

\* thread t enters sign_ipa(input_ipa, output_ipa, certificate, profile)
ConcSignIpaCall(t) ==
    /\ pc[t] \in {"idle", "done"}
    /\ ncalls < MaxCalls
    /\ \E a \in { Zip(x) : x \in BadTrees \cup IdTrees } :
        call' = [call EXCEPT ![t] = [NoCall EXCEPT !.op = "sign_ipa", !.archive = a,
                                                   !.profile = PlainProfile,
                                                   !.certificate = NaiveCert]]
    /\ pc' = [pc EXCEPT ![t] = "extract"]
    /\ result' = [result EXCEPT ![t] = NoResult]
    /\ ncalls' = ncalls + 1
    /\ UNCHANGED <<disk, tempList, signLog, outFile, darwin, bidVars, signerVars, svcVars, fnVars>>

\* extract_ipa in thread t: mkdtemp, self._temp_dirs.append, extractall
ConcExtractIpa(t) ==
    /\ pc[t] = "extract"
    /\ LET d == FreshDir IN
       /\ tempList' = Append(tempList, d)
       /\ call' = [call EXCEPT ![t].dir = d]
       /\ disk' = WithDir(d, call[t].archive.tree)
    /\ pc' = [pc EXCEPT ![t] = "prepare"]
    /\ UNCHANGED <<result, signLog, outFile, ncalls, darwin, bidVars, signerVars, svcVars, fnVars>>

\* find_app_in_payload, get_app_info, profile_temp.write_bytes and
\* install_provisioning_profile in thread t; each raises when the extraction
\* directory is gone
ConcPrepare(t) ==
    /\ pc[t] = "prepare"
    /\ LET d == call[t].dir
           fail(msg) == /\ result' = [result EXCEPT ![t] = Failure(msg)]
                        /\ pc' = [pc EXCEPT ![t] = "finally"]
                        /\ UNCHANGED disk
       IN IF d \notin DOMAIN disk \/ ~disk[d].payload
          THEN fail("Payload folder not found")
          ELSE IF ~disk[d].app THEN fail("No .app bundle found in Payload")
          ELSE IF disk[d].plist = "missing" THEN fail("Info.plist not found")
          ELSE IF disk[d].plist = "bad" THEN fail("Failed to parse Info.plist")
          ELSE /\ disk' = WithDir(d, install_provisioning_profile(
                                        [disk[d] EXCEPT !.tempProv = ProvFile(EmptyEnts)],
                                        ProvFile(EmptyEnts)))
               /\ pc' = [pc EXCEPT ![t] = "sign_app"]
               /\ UNCHANGED result
    /\ UNCHANGED <<call, tempList, signLog, outFile, ncalls, darwin, bidVars, signerVars, svcVars, fnVars>>

\* sign_app in thread t, which ends at Path(profile.raw_data) at the latest,
\* and `if not result.success: return result`
ConcSignApp(t) ==
    /\ pc[t] = "sign_app"
    /\ LET d == call[t].dir IN
       IF d \notin DOMAIN disk
       THEN /\ result' = [result EXCEPT ![t] = Failure("App not found")]
            /\ UNCHANGED disk
       ELSE /\ result' = [result EXCEPT ![t] = Failure("TypeError")]
            /\ disk' = WithDir(d, [disk[d] EXCEPT !.hasXcent = TRUE,
                          !.xcent = generate_entitlements(PlainProfile, disk[d].bundle_id,
                                        get_embedded_entitlements(disk[d]))])
    /\ pc' = [pc EXCEPT ![t] = "finally"]
    /\ UNCHANGED <<call, tempList, signLog, outFile, ncalls, darwin, bidVars, signerVars, svcVars, fnVars>>

\* finally: self.cleanup() in thread t
ConcFinally(t) ==
    /\ pc[t] = "finally"
    /\ disk' = cleanup(tempList)
    /\ tempList' = <<>>
    /\ pc' = [pc EXCEPT ![t] = "done"]
    /\ UNCHANGED <<call, result, signLog, outFile, ncalls, darwin, bidVars, signerVars, svcVars, fnVars>>

ConcNext ==
    \E t \in Threads :
        \/ ConcSignIpaCall(t)
        \/ ConcExtractIpa(t)
        \/ ConcPrepare(t)
        \/ ConcSignApp(t)
        \/ ConcFinally(t)

SpecConcurrent == ConcInit /\ [][ConcNext]_vars

\* ------------------------------------------------------------------------
\* Properties
\* ------------------------------------------------------------------------
SignIpaReturned == pc = "done" /\ call.op = "sign_ipa"

\* the input of scenario E1: Payload/<X>.app with Info.plist and its
\* executable, a profile carrying its raw bytes
HappyInput ==
    /\ call.archive \in { Zip(t) : t \in {g \in GoodTrees : g.exe} }
    /\ call.profile.raw_data.t = "bytes"

\* C1: for an archive holding Payload/<X>.app with Info.plist and its
\* executable and a valid certificate / profile pair whose profile carries its
\* raw bytes, sign_ipa returns success = true and the output archive exists.
C1_HappyPathSucceeds ==
    (SignIpaReturned /\ HappyInput) =>
        (result.success /\ result.has_output /\ outFile.state = "new")

GroupRank(g) == IF g = "framework" THEN 1 ELSE IF g = "plugin" THEN 2 ELSE 3

\* C2: within one sign_app call every invocation for a Frameworks entry comes
\* before every invocation for a PlugIns binary, and the main executable is
\* signed only after all signable frameworks and plug-ins have been signed.
C2_SigningOrder ==
    /\ \A i, j \in 1..Len(signLog) :
         i < j => GroupRank(signLog[i].group) <= GroupRank(signLog[j].group)
    /\ \A i \in 1..Len(signLog) :
         signLog[i].group = "main" =>
            \A e \in disk[call.dir].fw \cup disk[call.dir].plugins :
               (SignableFramework(e) \/ SignablePlugin(e)) =>
                  \E k \in 1..(i - 1) : signLog[k].binary = e.name

\* a call that signed two frameworks, a plug-in and then the main executable
C2_Witness ==
    /\ Len(signLog) = 4
    /\ signLog[1].group = "framework"
    /\ signLog[2].group = "framework"
    /\ signLog[3].group = "plugin"
    /\ signLog[4].group = "main"

\* C3: after sign_ipa returns, on every path, the temporary extraction
\* directory it created no longer exists and _temp_dirs is empty.
C3_TempDirRemoved ==
    SignIpaReturned =>
        /\ tempList = <<>>
        /\ call.dir \notin DOMAIN disk
        /\ (DOMAIN disk) \cap TempDirIds = {}

\* sign_ipa has returned a failure after having extracted into a directory
C3_Witness ==
    /\ SignIpaReturned
    /\ call.dir \in TempDirIds
    /\ ~result.success
    /\ result.message \in {"Failed to extract IPA", "Payload folder not found",
                           "Info.plist not found", "TypeError"}

\* sign_app, called by sign_ipa, has written Info.plist and the entitlements
SignIpaPrepared ==
    /\ call.op = "sign_ipa"
    /\ pc = "sa_install"

\* C5: when sign_ipa is given new_bundle_id, CFBundleIdentifier,
\* SigningResult.bundle_id and the suffix of application-identifier equal
\* new_bundle_id for every profile pattern.
C5_OverrideVerbatim ==
    (SignIpaPrepared /\ Truthy(call.new_bundle_id)) =>
        /\ disk[call.dir].bundle_id = call.new_bundle_id
        /\ call.bundle_id = call.new_bundle_id
        /\ disk[call.dir].xcent["application-identifier"]
              = call.profile.team_id \o <<".">> \o call.new_bundle_id

\* C8: each preserved key of the entitlements written by sign_ipa takes its
\* value from the profile the input archive embedded before signing, when both
\* that profile and the new profile declare the key.
C8_PreservedFromPrevious ==
    SignIpaPrepared =>
        LET previous == call.archive.tree.embedded IN
        \A k \in PreserveKeys :
           ( /\ previous.parse = "ok"
             /\ k \in DOMAIN previous.ents
             /\ k \in DOMAIN call.profile.entitlements )
           => disk[call.dir].xcent[k] = previous.ents[k]

\* seg is o.split(".")[-1], stated on the characters of o
IsLastSegment(o, seg) ==
    \E k \in 0..Len(o) :
       /\ seg = SubSeq(o, k + 1, Len(o))
       /\ \A i \in (k + 1)..Len(o) : o[i] # "."
       /\ (k = 0 \/ o[k] = ".")

\* C7: without an override calculate_bundle_id returns the original for "*"
\* and for a matching prefix wildcard, prefix + last dot-segment for a prefix
\* wildcard that does not match, the pattern itself when it is concrete; so
\* the result is the original whenever matches_bundle_id holds.
C7_BundleIdRule ==
    bidOut.done =>
        LET o == bidIn.original
            p == bundle_id_pattern(bidIn.app_id)
            prefix == SubSeq(p, 1, Len(p) - 1)
            v == bidOut.value
        IN /\ (p = <<"*">>) => v = o
           /\ (p # <<"*">> /\ EndsWithStar(p) /\ StartsWith(o, prefix)) => v = o
           /\ (p # <<"*">> /\ EndsWithStar(p) /\ ~StartsWith(o, prefix)) =>
                 \E n \in 0..Len(o) :
                    /\ IsLastSegment(o, SubSeq(o, n + 1, Len(o)))
                    /\ v = prefix \o SubSeq(o, n + 1, Len(o))
           /\ (~EndsWithStar(p)) => v = p
           /\ matches_bundle_id(bidIn.app_id, o) => v = o

\* a prefix wildcard that does not match rewrote a dotted identifier
C7_Witness ==
    /\ bidOut.done
    /\ bidIn.app_id = <<"a", ".", "a", "*">>
    /\ bidIn.original = <<"b", ".", "b">>
    /\ bidOut.value = <<"a", "b">>

\* C4: after WeeklySigner.sign_ipa returns, whether it succeeded or failed
\* at any step, the temporary extraction directory created during the call
\* is no longer on disk.
C4_WeeklyLeavesNoTempDir ==
    (pc = "done" /\ call.via = "weekly" /\ call.dir \in TempDirIds)
        => call.dir \notin DOMAIN disk

\* the checks a fresh AnnualSigner's files fail at the time of the call
FailedChecks ==
    ValidationErrors(call.files.p12.cert, call.files.prov.profile, call.at)

\* AnnualSigner.sign_ipa on a signer not validated before, whose two files
\* parse and fail at least one of the four checks
C9_Case ==
    /\ call.via = "annual"
    /\ call.op \in {"annual.sign_ipa", "sign_ipa"}
    /\ call.fresh
    /\ call.files.p12.parses
    /\ call.files.prov.parses
    /\ FailedChecks # {}

\* C9: for a fresh AnnualSigner whose certificate is outside its validity
\* window, whose profile is expired, whose team ids differ or whose
\* certificate is not among the profile's, sign_ipa returns success=false
\* with a message naming the failed checks, never enters the core and writes
\* no output file.
C9_ValidationFailureSurfaced ==
    C9_Case =>
        /\ pc = "done"
        /\ call.op = "annual.sign_ipa"
        /\ ~result.raised
        /\ ~result.success
        /\ result.checks = FailedChecks
        /\ ~result.has_output
        /\ signLog = <<>>
        /\ tempList = <<>>

\* C10: every (certificate, profile) pair a pipeline passes to
\* SigningCore.sign_ipa is temporally valid on both sides, has one team id,
\* and has the certificate's fingerprint among the profile's certificates.
C10_IdentityInvariants ==
    (pc = "extract" /\ call.via \in {"annual", "weekly"})
        => /\ CertificateIsValid(call.certificate, call.at)
           /\ ProfileIsValid(call.profile, call.at)
           /\ call.certificate.team_id = call.profile.team_id
           /\ \E d \in call.profile.certificates :
                 Sha1Upper(d) = call.certificate.fingerprint_sha1

\* the sign-in request that made the session_data a later request carries
MadeBy(j, i) ==
    /\ j < i
    /\ net[j].kind = "signin"
    /\ net[j].sid = net[i].sid

C12_AnisettePreserved ==
    \A i \in 1..Len(net) :
       net[i].kind \in {"verify", "trust"} =>
          \E j \in 1..Len(net) :
             MadeBy(j, i) /\ net[j].anisette = net[i].anisette

\* C13: authenticate without a code returns success with a session created
\* exactly when the sign-in POST answered 200, raises TwoFactorRequired with
\* the pending session stored exactly when it answered 409, and for any
\* other answer returns (False, message), creating no session and storing
\* no pending session.
C13_SigninAnswers ==
    [][ (ret'.n # ret.n /\ ret'.op = "authenticate" /\ ret'.code = "none"
           /\ ret'.signin # "none")
        => /\ (ret'.value = "true") <=> (ret'.signin = "200")
           /\ (ret'.signin = "200") =>
                 /\ is_authenticated(auth')
                 /\ auth'.session # auth.session
           /\ (ret'.value = "2fa") <=> (ret'.signin = "409")
           /\ (ret'.signin = "409") =>
                 /\ auth'.pending.present
                 /\ auth'.pending # auth.pending
                 /\ auth'.session = auth.session
           /\ (ret'.signin \notin {"200", "409"}) =>
                 /\ ret'.value = "false"
                 /\ auth'.session = auth.session
                 /\ auth'.pending = auth.pending ]_vars

\* a sign-in answered 503 after an earlier one had answered 409
C13_Witness ==
    /\ ret.op = "authenticate"
    /\ ret.code = "none"
    /\ ret.signin = "503"
    /\ ret.value = "false"
    /\ auth.pending.present
    /\ ~is_authenticated(auth)


\* C14: every request WeeklySigner hands to _dev_request with an
\* authenticated session carries the Xcode user agent, the session's anisette
\* headers, the DSID as X-Apple-I-Identity-Id and the session token, and
\* building and sending it does not fail before it reaches the network.
C14_DevRequestHeaders ==
    \A i \in 1..Len(dev) :
        dev[i].authenticated =>
            /\ {"User-Agent", "X-Apple-I-Identity-Id", "X-Apple-GS-Token"}
                   \subseteq dev[i].headers
            /\ {"X-Apple-I-MD", "X-Apple-I-MD-M"} \subseteq dev[i].headers
            /\ dev[i].sent

\* C15: create_certificate called on an authenticated signer, with the
\* cryptography module present and Apple answering the CSR with a
\* certificate, returns a Certificate of the selected team and appends it to
\* the certificate cache.
C15_CertificateCreated ==
    (ret.op = "create_certificate" /\ ret.was_auth /\ wk.crypto /\ wk.answers) =>
        /\ ret.value = "ok"
        /\ wk.certificates # <<>>
        /\ wk.certificates[Len(wk.certificates)].team_id = wk.team_id

C17_UdidAccepted ==
    (fnOut.done /\ fnIn.f = "register_device") =>
        (fnOut.accepted <=>
            /\ fnIn.arg.lead + fnIn.arg.len + fnIn.arg.trail = UdidLen
            /\ fnIn.arg.lead = 0 /\ fnIn.arg.trail = 0
            /\ fnIn.arg.chars \subseteq {"digit", "A-F", "a-f", "dash"})

\* C20: without codesign, signing a file that starts with the bytes
\* CF FA ED FE takes it for a Mach-O, leaves these four bytes as they are and
\* leaves the file strictly larger than before.
C20_AdhocAppendsSignature ==
    (/\ fnOut.done
     /\ fnIn.f = "_sign_adhoc"
     /\ Len(fnIn.arg) >= 4
     /\ SubSeq(fnIn.arg, 1, 4) = <<207, 250, 237, 254>>) =>
        /\ fnOut.macho
        /\ SubSeq(fnOut.data, 1, 4) = SubSeq(fnIn.arg, 1, 4)
        /\ Len(fnOut.data) > Len(fnIn.arg)


\* C21: when a step of sign_ipa before repacking fails, the call raises
\* nothing and returns a SigningResult with success = false and a non-empty
\* errors list; no binary is signed after one the signer failed on; and the
\* file at the output path is written only by the repacking step that follows
\* a successful sign_app.
C21_FailureBeforeRepack ==
    /\ []((SignIpaReturned /\ ~result.success
                /\ result.message # "Failed to create IPA") =>
            (~result.raised /\ result.errors))
    /\ [](\A i \in 1..(Len(signLog) - 1) : signLog[i].outcome = "ok")
    /\ [][outFile' # outFile => (pc = "post_sign" /\ result.success)]_vars

\* sign_ipa has returned the failure of a step before repacking, with a file
\* already at the output path
C21_Witness ==
    /\ SignIpaReturned
    /\ result.message \in {"Payload folder not found", "No .app bundle found in Payload",
                           "Info.plist not found", "Failed to parse Info.plist"}
    /\ outFile = OldOutput


\* C22: _extract_plist returns the slice of its input from the earliest
\* occurrence of either opening marker, "<?xml" or "<plist", to the last
\* "</plist>" inclusive, and raises when no opening marker or no "</plist>"
\* is present.
C22_ExtractPlistSlice ==
    (fnOut.done /\ fnIn.f = "_extract_plist") =>
        LET data == fnIn.arg
            opening == { i \in 1..Len(data) : data[i] \in {"<?xml", "<plist"} }
            closing == { i \in 1..Len(data) : data[i] = "</plist>" }
        IN IF opening = {} \/ closing = {}
           THEN fnOut.raised
           ELSE /\ ~fnOut.raised
                /\ fnOut.data = SubSeq(data, SetMin(opening), SetMax(closing))


\* C23: a request answered with 503, or met by a transient network failure,
\* is sent again, at most 2 additional times, before the operation reports
\* failure; no request is attempted more than 3 times.
C23_RetriedTwice ==
    (fnOut.done /\ fnIn.f = "signin") =>
        /\ fnOut.attempts <= 3
        /\ \A i \in 1..fnOut.attempts :
              (i < 3 /\ fnIn.arg[i] \in {"503", "neterr"}) => fnOut.attempts > i


\* C25: in sign_app the entitlements file is passed to sign_binary for the
\* main executable only; every framework, dylib and plug-in binary is signed
\* with no entitlements argument.
C25_EntitlementsForMainOnly ==
    \A i \in 1..Len(signLog) :
        signLog[i].entitlements <=> signLog[i].group = "main"

\* a sign_app call that signed a dylib or framework, a plug-in and the main
\* executable with codesign
C25_Witness ==
    /\ pc = "done"
    /\ call.op = "sign_app"
    /\ \E i, j, k \in 1..Len(signLog) :
          /\ signLog[i].group = "framework" /\ ~signLog[i].entitlements
          /\ signLog[j].group = "plugin" /\ ~signLog[j].entitlements
          /\ signLog[k].group = "main" /\ signLog[k].entitlements
          /\ signLog[k].backend = "codesign"


\* C26: when two sign_ipa calls run concurrently on one SigningCore, each
\* works in its own extraction directory, and the directory of a call that is
\* still extracting, signing or repacking has not been removed by the other
\* call's cleanup.
C26_OwnDirectoryWhileWorking ==
    \A t \in Threads :
        pc[t] \in {"prepare", "sign_app"} =>
            /\ call[t].dir \in DOMAIN disk
            /\ \A u \in Threads \ {t} :
                  pc[u] \in {"prepare", "sign_app", "finally"} =>
                     call[u].dir # call[t].dir


\* C27: over any sequence of validate() and sign_ipa() calls on one
\* AnnualSigner, with the files changing between calls, _validated is true
\* only if the certificate and profile now loaded passed every check of the
\* most recent validate(); after a validate() that failed, sign_ipa does not
\* go on to signing without validating again.
C27_ValidatedMeansLastValidatePassed ==
    (pc = "done" /\ call.op = "annual.validate" /\ ~result.success) =>
        ~an.validated


\* C28: an authenticate(apple_id, password, code) call that returns success
\* leaves a session established by a sign-in made with that apple_id and
\* password; a pending two-factor session left by a call with other
\* credentials is never the one verified and authenticated.
C28_SessionOfTheCaller ==
    (ret.op = "authenticate" /\ ret.value = "true") =>
        \E j \in 1..Len(net) :
            /\ net[j].kind = "signin"
            /\ net[j].sid = auth.session.sid
            /\ net[j].user = ret.user

\* C29: when load_session returns False, the session and the anisette data
\* the authenticator held before the call are unchanged.
C29_FailedLoadChangesNothing ==
    [][(ret'.n # ret.n /\ ret'.op = "load_session" /\ ret'.value = "false") =>
          (auth'.session = auth.session /\ auth'.anisette = auth.anisette)]_vars

====
